---- MODULE Spec2Model ----
(***************************************************************************)
(* marimo-cad: the shape-to-viewer serializer (_tessellate) and the        *)
(* deferred-delivery handshake of the CAD widget (_CADWidget, Viewer) of   *)
(* src/src/marimo_cad/widget.py.                                           *)
(*                                                                         *)
(* Python values are records tagged by their type in the field py, so that *)
(* any two of them can be compared: None, str, float, an opaque shape, a   *)
(* mesh, list / tuple / iterator (their elements in items) and dict (its   *)
(* key/value pairs as the function d, from key strings to values).         *)
(***************************************************************************)
EXTENDS Naturals, Sequences, FiniteSets, TLC

VARIABLES
    _js_ready,        \* _CADWidget._js_ready
    _pending_shapes,  \* _CADWidget._pending_shapes: a dict or None
    shapes_data,      \* _CADWidget.shapes_data, the synced trait ("current")
    sent,             \* the send_state("shapes_data") calls made so far, in order
    escaped,          \* whether the last call let an exception reach its caller
    ops,              \* the calls made on the viewer so far, in order
    ser_call,         \* a call of a serializer function: [fn, arg, raises]
    ser_result,       \* what that call did, None before it is made
    viewers,          \* several Viewer instances: viewer id -> its widget
    threads           \* two threads in one widget: [pc, data] of each call

vars == <<_js_ready, _pending_shapes, shapes_data, sent, escaped, ops,
          ser_call, ser_result, viewers, threads>>

\* Bounds of the model: the number of render calls and of custom messages,
\* and the length of the sequences handed to the serializer.
MaxRenders == 2
MaxMsgs == 2
MaxLen == 2

---------------------------------------------------------------------------
\* Python values

None == [py |-> "None"]
Str(s) == [py |-> "str", v |-> s]
\* A float, in tenths: Float(5) is 0.5.
Float(t) == [py |-> "float", v |-> t]
\* An opaque geometry object of the external CAD library.
Shape(id) == [py |-> "shape", id |-> id]
List(s) == [py |-> "list", items |-> s]
Tuple(s) == [py |-> "tuple", items |-> s]
\* A generator: it has __iter__ and __next__, and yields items.
Iter(s) == [py |-> "iter", items |-> s]
\* An iterable that is no list, no tuple and no iterator: it has __iter__
\* and no __next__ (a range, a set, a collection object of the CAD library).
Iterable(s) == [py |-> "iterable", items |-> s]
\* isinstance(x, (list, tuple))
IsListOrTuple(x) == x.py \in {"list", "tuple"}
\* hasattr(x, name), for the attributes the serializer asks for
HasAttr(x, name) ==
    CASE name = "__iter__" ->
             x.py \in {"list", "tuple", "iter", "iterable", "dict", "str"}
      [] name = "__next__" -> x.py = "iter"
      [] OTHER -> FALSE
Dict(f) == [py |-> "dict", d |-> f]
\* {}
EmptyDict == Dict(<<>>)

\* k in x, for a dict x
DictHas(x, k) == k \in DOMAIN x.d
\* x.get(k), x.get(k, default)
DictGetOr(x, k, default) == IF k \in DOMAIN x.d THEN x.d[k] ELSE default
DictGet(x, k) == DictGetOr(x, k, None)

\* The outcome of a call: it raised, or it returned value.
Return(v) == [raised |-> FALSE, value |-> v]
Raise == [raised |-> TRUE, value |-> None]

---------------------------------------------------------------------------
\* Serializer

\* str.lower, on the strings of the model.
lower(s) ==
    CASE s = "BLUE" -> "blue"
      [] s = "Blue" -> "blue"
      [] s = "GREEN" -> "green"
      [] s = "#ABC123" -> "#abc123"
      [] OTHER -> s

COLORS ==
    [blue |-> "#4a90d9", red |-> "#e85454", green |-> "#50e850",
     yellow |-> "#e8b024", orange |-> "#e87824", purple |-> "#b024e8",
     cyan |-> "#24e8b0", pink |-> "#e824b0", gray |-> "#888888",
     white |-> "#ffffff", black |-> "#333333"]

\* Mutant of _resolve_color: the name is looked up as it is spelled.
_resolve_color_case_sensitive(color) ==
    IF color = None
    THEN None
    ELSE IF color.v \in DOMAIN COLORS
         THEN Str(COLORS[color.v])
         ELSE color

_resolve_color(color) ==
    IF color = None
    THEN None
    ELSE IF lower(color.v) \in DOMAIN COLORS
         THEN Str(COLORS[lower(color.v)])
         ELSE color

_is_part_spec(item) == item.py = "dict" /\ DictHas(item, "shape")

\* Mutant of _is_sequence_of_parts: an iterator is not taken for a sequence.
_is_sequence_of_parts_no_iterator(item) == IsListOrTuple(item)

_is_sequence_of_parts(item) ==
    IF IsListOrTuple(item)
    THEN TRUE
    ELSE IF HasAttr(item, "__iter__") /\ HasAttr(item, "__next__")
         THEN TRUE
         ELSE FALSE

\* Mutant of _unpack: the color is passed on as it was given.
_unpack_raw_color(item) ==
    IF _is_part_spec(item)
    THEN <<item.d["shape"],
           DictGet(item, "name"),
           DictGet(item, "color"),
           DictGet(item, "alpha")>>
    ELSE <<item, None, None, None>>

\* (shape, name, color, alpha)
_unpack(item) ==
    IF _is_part_spec(item)
    THEN <<item.d["shape"],
           DictGet(item, "name"),
           _resolve_color(DictGet(item, "color")),
           DictGet(item, "alpha")>>
    ELSE <<item, None, None, None>>

\* The placeholder name the tessellator gives the part at index i
\* when no name was passed for it.
PartPlaceholder(i) ==
    CASE i = 1 -> Str("Part 1")
      [] i = 2 -> Str("Part 2")
      [] i = 3 -> Str("Part 3")
      [] OTHER -> Str("Part N")

\* The external tessellation function, to_viewer_format(*shapes, names=,
\* colors=, alphas=): it may raise (raises), and otherwise returns
\* {"parts": [...]} with one part per shape, in the order of the shapes.
to_viewer_format(shapes, names, colors, alphas, raises) ==
    IF raises
    THEN Raise
    ELSE Return(Dict([parts |-> List(
             [i \in 1..Len(shapes) |->
                 Dict([mesh |-> [py |-> "mesh", of |-> shapes[i]],
                       name |-> IF names[i] = None
                                THEN PartPlaceholder(i)
                                ELSE names[i],
                       color |-> colors[i],
                       alpha |-> alphas[i]])])]))

\* The elements of the set S in some order.
RECURSIVE SetToSeq(_)
SetToSeq(S) ==
    IF S = {}
    THEN <<>>
    ELSE LET x == CHOOSE y \in S : TRUE
         IN  <<x>> \o SetToSeq(S \ {x})

\* list(x): the elements x yields when iterated; a dict yields its keys.
ListOf(x) ==
    IF x.py = "dict"
    THEN SetToSeq({Str(k) : k \in DOMAIN x.d})
    ELSE x.items

\* Mutant of Normalize: the input is never expanded.
Normalize_no_expand(parts) == <<parts>>

\* items of _tessellate: the input normalized to a list
Normalize(parts) ==
    IF _is_part_spec(parts) \/ ~_is_sequence_of_parts(parts)
    THEN <<parts>>
    ELSE ListOf(parts)

\* Mutant of NoObjects: no short cut for an empty list.
NoObjects_never(objects) == FALSE

\* if not objects
NoObjects(objects) == Len(objects) = 0

\* Mutant of ExceptReturnEmpty: no except clause.
ExceptReraise(r) == r

\* try: return to_viewer_format(...) / except Exception: return {}
ExceptReturnEmpty(r) == IF r.raised THEN Return(EmptyDict) ELSE r

\* The outcome of _tessellate(parts): the value it returns (value), whether
\* an exception left it instead (raised), the normalized input (items), the
\* calls of the tessellator it made, with their arguments (calls, called),
\* and whether the tessellator raised into the except clause (failed).
\* raises: the tessellator raises an Exception for this batch.
TessellateCall(parts, raises) ==
    LET items == Normalize(parts)
        objects == [i \in 1..Len(items) |-> _unpack(items[i])]
    IN  IF NoObjects(objects)
        THEN [value |-> EmptyDict, raised |-> FALSE, items |-> items,
              calls |-> <<>>, called |-> FALSE, failed |-> FALSE]
        ELSE LET shapes == [i \in 1..Len(objects) |-> objects[i][1]]
                 names == [i \in 1..Len(objects) |-> objects[i][2]]
                 colors == [i \in 1..Len(objects) |-> objects[i][3]]
                 alphas == [i \in 1..Len(objects) |-> objects[i][4]]
                 call == [shapes |-> shapes, names |-> names,
                          colors |-> colors, alphas |-> alphas]
                 r == to_viewer_format(shapes, names, colors, alphas, raises)
                 t == ExceptReturnEmpty(r)
             IN  [value |-> t.value, raised |-> t.raised, items |-> items,
                  calls |-> <<call>>, called |-> TRUE, failed |-> r.raised]

\* Mutant of _tessellate: an empty input yields {"parts": []}.
_tessellate_explicit_empty(parts, raises) ==
    IF Len(Normalize(parts)) = 0
    THEN Dict([parts |-> List(<<>>)])
    ELSE TessellateCall(parts, raises).value

_tessellate(parts, raises) == TessellateCall(parts, raises).value

\* len(shapes_data.get("parts", []))
NumParts(data) == Len(DictGetOr(data, "parts", List(<<>>)).items)

---------------------------------------------------------------------------
\* Sync channel: the widget's state as a record, and its methods on it

Widget ==
    [_js_ready |-> _js_ready, _pending_shapes |-> _pending_shapes,
     shapes_data |-> shapes_data, sent |-> sent, escaped |-> FALSE]

\* self.send_state("shapes_data"): the push of the trait's value to the
\* consumer, which may raise (~ok). Each call is recorded with the value
\* pushed and with _js_ready as it was at the call.
send_state(w, ok) ==
    [w EXCEPT !.sent = Append(@, [data |-> w.shapes_data, ok |-> ok,
                                  ready |-> w._js_ready]),
              !.escaped = ~ok]

\* Mutant of TrySendState: no except clause, the exception leaves the method.
TrySendState_propagate(w, ok) == send_state(w, ok)

\* try: self.send_state("shapes_data") / except Exception: logger.exception
TrySendState(w, ok) == [send_state(w, ok) EXCEPT !.escaped = FALSE]

\* Mutants of set_shapes.
\* A payload already buffered is kept, the new one dropped.
set_shapes_keep_first(w, data, ok) ==
    IF w._js_ready
    THEN TrySendState([w EXCEPT !.shapes_data = data], ok)
    ELSE IF w._pending_shapes # None
         THEN w
         ELSE [w EXCEPT !._pending_shapes = data, !.shapes_data = data]

\* The payload is pushed whether the consumer is ready or not.
set_shapes_eager(w, data, ok) ==
    TrySendState([w EXCEPT !.shapes_data = data,
                           !._pending_shapes = IF w._js_ready THEN @ ELSE data], ok)

\* The payload is buffered also when it has been pushed.
set_shapes_buffer_too(w, data, ok) ==
    IF w._js_ready
    THEN TrySendState([w EXCEPT !.shapes_data = data, !._pending_shapes = data], ok)
    ELSE [w EXCEPT !._pending_shapes = data, !.shapes_data = data]

\* if not data: return
set_shapes_skip_empty(w, data, ok) ==
    IF data = EmptyDict
    THEN w
    ELSE IF w._js_ready
         THEN TrySendState([w EXCEPT !.shapes_data = data], ok)
         ELSE [w EXCEPT !._pending_shapes = data, !.shapes_data = data]

\* The new parts are added to the parts shown.
set_shapes_accumulate(w, data, ok) ==
    LET merged ==
            IF DictHas(w.shapes_data, "parts") /\ DictHas(data, "parts")
            THEN Dict([parts |-> List(w.shapes_data.d["parts"].items
                                      \o data.d["parts"].items)])
            ELSE data
    IN  IF w._js_ready
        THEN TrySendState([w EXCEPT !.shapes_data = merged], ok)
        ELSE [w EXCEPT !._pending_shapes = merged, !.shapes_data = merged]

\* Mutant: when ready, pushes before the trait is assigned.
set_shapes_send_before_assign(w, data, ok) ==
    IF w._js_ready
    THEN [TrySendState(w, ok) EXCEPT !.shapes_data = data]
    ELSE [w EXCEPT !._pending_shapes = data, !.shapes_data = data]

set_shapes(w, data, ok) ==
    IF w._js_ready
    THEN TrySendState([w EXCEPT !.shapes_data = data], ok)
    ELSE [w EXCEPT !._pending_shapes = data, !.shapes_data = data]

\* Mutants of _on_custom_msg.
\* The buffer is not cleared after the flush.
_on_custom_msg_keep_pending(w, content, ok) ==
    IF DictGet(content, "type") = Str("ready")
    THEN LET w1 == [w EXCEPT !._js_ready = TRUE]
         IN  IF w1._pending_shapes # None
             THEN TrySendState([w1 EXCEPT !.shapes_data = w1._pending_shapes], ok)
             ELSE w1
    ELSE w

\* Every readiness signal pushes shapes_data again.
_on_custom_msg_resend(w, content, ok) ==
    IF DictGet(content, "type") = Str("ready")
    THEN LET w1 == [w EXCEPT !._js_ready = TRUE]
         IN  IF w1._pending_shapes # None
             THEN TrySendState([w1 EXCEPT !.shapes_data = w1._pending_shapes,
                                          !._pending_shapes = None], ok)
             ELSE TrySendState(w1, ok)
    ELSE w

\* The buffer is cleared without the push.
_on_custom_msg_no_flush(w, content, ok) ==
    IF DictGet(content, "type") = Str("ready")
    THEN [w EXCEPT !._js_ready = TRUE, !._pending_shapes = None]
    ELSE w

\* Every message is taken for the readiness signal.
_on_custom_msg_any_msg(w, content, ok) ==
    LET w1 == [w EXCEPT !._js_ready = TRUE]
    IN  IF w1._pending_shapes # None
        THEN TrySendState([w1 EXCEPT !.shapes_data = w1._pending_shapes,
                                     !._pending_shapes = None], ok)
        ELSE w1

\* The buffer is flushed without the test for None: shapes_data = pending or {}
_on_custom_msg_flush_none(w, content, ok) ==
    IF DictGet(content, "type") = Str("ready")
    THEN LET w1 == [w EXCEPT !._js_ready = TRUE]
         IN  TrySendState([w1 EXCEPT !.shapes_data =
                                         IF w1._pending_shapes # None
                                         THEN w1._pending_shapes
                                         ELSE EmptyDict,
                                     !._pending_shapes = None], ok)
    ELSE w

\* Mutant: tests the buffer for truth ("if self._pending_shapes:"), so the
\* empty dict is not flushed.
_on_custom_msg_truthy(w, content, ok) ==
    IF DictGet(content, "type") = Str("ready")
    THEN LET w1 == [w EXCEPT !._js_ready = TRUE]
         IN  IF w1._pending_shapes # None /\ w1._pending_shapes # EmptyDict
             THEN TrySendState([w1 EXCEPT !.shapes_data = w1._pending_shapes,
                                          !._pending_shapes = None], ok)
             ELSE w1
    ELSE w

_on_custom_msg(w, content, ok) ==
    IF DictGet(content, "type") = Str("ready")
    THEN LET w1 == [w EXCEPT !._js_ready = TRUE]
         IN  IF w1._pending_shapes # None
             THEN TrySendState([w1 EXCEPT !.shapes_data = w1._pending_shapes,
                                          !._pending_shapes = None], ok)
             ELSE w1
    ELSE w

\* Viewer.render(shapes)
render(w, shapes, raises, ok) == set_shapes(w, _tessellate(shapes, raises), ok)

---------------------------------------------------------------------------
\* Inputs

box == Shape("box")
cyl == Shape("cyl")

\* What render is called with.
RenderInputs ==
    { box,
      List(<<>>),
      List(<<box, Dict([shape |-> cyl, name |-> Str("Base"), color |-> Str("BLUE")])>>) }

\* The messages the consumer sends.
ReadyMsg == Dict([type |-> Str("ready")])
Messages == { ReadyMsg, Dict([type |-> Str("selected")]) }

---------------------------------------------------------------------------
\* The state machine of one viewer

Store(w) ==
    /\ _js_ready' = w._js_ready
    /\ _pending_shapes' = w._pending_shapes
    /\ shapes_data' = w.shapes_data
    /\ sent' = w.sent
    /\ escaped' = w.escaped

NumOps(kind) == Cardinality({i \in 1..Len(ops) : ops[i].op = kind})

\* Mutant of Init: the buffer starts as {} instead of None.
Init_pending_empty ==
    /\ _js_ready = FALSE
    /\ _pending_shapes = EmptyDict
    /\ shapes_data = EmptyDict
    /\ sent = <<>>
    /\ escaped = FALSE
    /\ ops = <<>>
    /\ ser_call = None
    /\ ser_result = None
    /\ viewers = None
    /\ threads = None

\* Viewer.__init__: a new _CADWidget, and widget.shapes_data = {}
Init ==
    /\ _js_ready = FALSE
    /\ _pending_shapes = None
    /\ shapes_data = EmptyDict
    /\ sent = <<>>
    /\ escaped = FALSE
    /\ ops = <<>>
    /\ ser_call = None
    /\ ser_result = None
    /\ viewers = None
    /\ threads = None

\* A call of Viewer.render(shapes)
Render ==
    /\ NumOps("render") < MaxRenders
    /\ \E shapes \in RenderInputs, raises \in BOOLEAN, ok \in BOOLEAN :
          /\ Store(render(Widget, shapes, raises, ok))
          /\ ops' = Append(ops, [op |-> "render", arg |-> shapes,
                                 failed |-> TessellateCall(shapes, raises).failed])
    /\ UNCHANGED <<ser_call, ser_result, viewers, threads>>

\* A custom message of the consumer reaches _on_custom_msg
OnCustomMsg ==
    /\ NumOps("msg") < MaxMsgs
    /\ \E content \in Messages, ok \in BOOLEAN :
          /\ Store(_on_custom_msg(Widget, content, ok))
          /\ ops' = Append(ops, [op |-> "msg", arg |-> content, failed |-> FALSE])
    /\ UNCHANGED <<ser_call, ser_result, viewers, threads>>

Next == Render \/ OnCustomMsg

Spec == Init /\ [][Next]_vars

TypeOK ==
    /\ _js_ready \in BOOLEAN
    /\ escaped \in BOOLEAN
    /\ _pending_shapes.py \in {"None", "dict"}
    /\ shapes_data.py = "dict"
    /\ Len(sent) <= MaxRenders

---------------------------------------------------------------------------
\* The serializer's functions on their own: one call of _tessellate or of
\* _resolve_color, on an input drawn from the sets below

\* The colors asked to be resolved.
ColorStrings ==
    DOMAIN COLORS \cup {"BLUE", "Blue", "GREEN", "#ff0000", "#ABC123", "teal"}
ColorInputs == {None} \cup {Str(c) : c \in ColorStrings}

\* PartSpec dicts of cyl: "shape" and any of the optional keys.
PartSpecs ==
    { Dict([k \in {"shape"} \cup ks |->
               CASE k = "shape" -> cyl
                 [] k = "name" -> Str("Base")
                 [] k = "color" -> c
                 [] OTHER -> Float(5)]) :
        ks \in SUBSET {"name", "color", "alpha"},
        c \in {Str("BLUE"), Str("#ff0000")} }

\* A dict that is no PartSpec: it has no "shape" key.
NoShapeDict == Dict([name |-> Str("Base")])

\* What a sequence of parts may hold: bare shapes and PartSpecs, a dict
\* without "shape" and a list (neither is looked into).
Elements == {box, cyl, NoShapeDict, List(<<box, cyl>>)} \cup PartSpecs

SeqsUpTo(S, n) == UNION {[1..k -> S] : k \in 0..n}

\* What _tessellate is called with.
SerInputs ==
    Elements
    \cup {List(q) : q \in SeqsUpTo(Elements, MaxLen)}
    \cup {Tuple(q) : q \in SeqsUpTo(Elements, MaxLen)}
    \cup {Iter(q) : q \in SeqsUpTo(Elements, MaxLen)}
    \cup {Iterable(q) : q \in SeqsUpTo(Elements, MaxLen)}

SerCalls ==
    {[fn |-> "_tessellate", arg |-> x, raises |-> r] :
        x \in SerInputs, r \in BOOLEAN}
    \cup {[fn |-> "_resolve_color", arg |-> c, raises |-> FALSE] :
             c \in ColorInputs}

SerInit ==
    /\ _js_ready = FALSE
    /\ _pending_shapes = None
    /\ shapes_data = EmptyDict
    /\ sent = <<>>
    /\ escaped = FALSE
    /\ ops = <<>>
    /\ ser_call \in SerCalls
    /\ ser_result = None
    /\ viewers = None
    /\ threads = None

ChannelUnchanged ==
    UNCHANGED <<_js_ready, _pending_shapes, shapes_data, sent, escaped, ops,
                viewers, threads>>

\* _tessellate(parts)
CallTessellate ==
    /\ ser_result = None
    /\ ser_call.fn = "_tessellate"
    /\ ser_result' = TessellateCall(ser_call.arg, ser_call.raises)
    /\ UNCHANGED ser_call
    /\ ChannelUnchanged

\* _resolve_color(color)
CallResolveColor ==
    /\ ser_result = None
    /\ ser_call.fn = "_resolve_color"
    /\ ser_result' = [value |-> _resolve_color(ser_call.arg), raised |-> FALSE]
    /\ UNCHANGED ser_call
    /\ ChannelUnchanged

SerNext == CallTessellate \/ CallResolveColor

SerSpec == SerInit /\ [][SerNext]_vars

---------------------------------------------------------------------------
\* Reading the history

IsRender(o) == o.op = "render"
IsReadyMsg(o) == o.op = "msg" /\ o.arg = ReadyMsg
\* The payload the render call o handed to set_shapes.
PayloadOf(o) == _tessellate(o.arg, o.failed)
Last(s) == s[Len(s)]

Renders == {i \in 1..Len(ops) : IsRender(ops[i])}
Readies == {i \in 1..Len(ops) : IsReadyMsg(ops[i])}
Max(S) == CHOOSE m \in S : \A n \in S : n <= m
Min(S) == CHOOSE m \in S : \A n \in S : m <= n
\* The render calls made before the first readiness signal.
RendersBeforeReady ==
    IF Readies = {} THEN Renders ELSE {i \in Renders : i < Min(Readies)}

\* This step is a call: it adds one entry to ops.
IsCall == Len(ops') = Len(ops) + 1
RenderStep == IsCall /\ IsRender(Last(ops'))
ReadyStep == IsCall /\ IsReadyMsg(Last(ops'))
\* This step made exactly one send_state call, and it pushed data.
Transmits(data) ==
    /\ Len(sent') = Len(sent) + 1
    /\ SubSeq(sent', 1, Len(sent)) = sent
    /\ Last(sent').data = data

---------------------------------------------------------------------------
\* Claims.  A transmission is a send_state call (an entry of sent); the
\* consumer receives a payload when that call does not raise (ok).

C2_FailedRenderKeepsScene ==
    [][(RenderStep /\ Last(ops').failed)
        => UNCHANGED <<shapes_data, _pending_shapes, sent>>]_vars

C5_ReadyRenderTransmitsNow ==
    [][(RenderStep /\ _js_ready)
        => /\ Transmits(PayloadOf(Last(ops')))
           /\ _pending_shapes = None
           /\ _pending_shapes' = None]_vars

C5_Witness ==
    /\ Len(ops) >= 2
    /\ IsRender(Last(ops))
    /\ \E i \in Readies : i < Len(ops)
    /\ NumParts(PayloadOf(Last(ops))) > 0
    /\ Last(sent).data = PayloadOf(Last(ops))
    /\ _pending_shapes = None

\* C6: a readiness signal that arrives when _js_ready is already true
\* transmits nothing, raises nothing and leaves _js_ready,
\* _pending_shapes and shapes_data as they were.
C6_SecondReadyIsNoOp ==
    [][(ReadyStep /\ _js_ready)
        => /\ UNCHANGED <<sent, _js_ready, _pending_shapes, shapes_data>>
           /\ ~escaped']_vars

C6_Witness ==
    /\ Cardinality(Readies) >= 2
    /\ RendersBeforeReady # {}
    /\ IsReadyMsg(Last(ops))
    /\ Len(sent) = 1
    /\ NumParts(shapes_data) > 0

\* The payload {"parts": []}: zero parts rendered explicitly.
NoPartsPayload == Dict([parts |-> List(<<>>)])
\* Some render call so far handed set_shapes a payload with parts in it.
RenderedNonEmpty == \E i \in Renders : NumParts(PayloadOf(ops[i])) > 0
RenderEmptyStep == RenderStep /\ Last(ops').arg = List(<<>>)

\* C7, as the claim states it: render([]) after a non-empty render, with
\* the consumer ready, transmits the payload {"parts": []}.
C7_TransmitsNoPartsPayload ==
    [][(RenderEmptyStep /\ RenderedNonEmpty /\ _js_ready)
        => Transmits(NoPartsPayload)]_vars

\* C7, amended: render([]) after a non-empty render sets shapes_data to
\* the empty sentinel {}; with the consumer ready it transmits {} within
\* the call, and before readiness it buffers {} and transmits nothing.
C7_TransmitsEmptySentinel ==
    [][(RenderEmptyStep /\ RenderedNonEmpty)
        => /\ shapes_data' = EmptyDict
           /\ shapes_data' # NoPartsPayload
           /\ IF _js_ready
              THEN Transmits(EmptyDict)
              ELSE _pending_shapes' = EmptyDict /\ sent' = sent]_vars

C7_Witness ==
    /\ Len(ops) >= 3
    /\ IsRender(Last(ops)) /\ Last(ops).arg = List(<<>>)
    /\ IsRender(ops[Len(ops) - 1]) /\ NumParts(PayloadOf(ops[Len(ops) - 1])) > 0
    /\ _js_ready
    /\ Len(sent) >= 2
    /\ Last(sent).data = EmptyDict

\* C8: when the most recent render call is render([]), shapes_data holds
\* zero parts, whatever was rendered before it.
C8_RenderEmptyClears ==
    (Renders # {} /\ ops[Max(Renders)].arg = List(<<>>))
    => NumParts(shapes_data) = 0

C8_Witness ==
    /\ Len(ops) = 2
    /\ IsRender(ops[1]) /\ NumParts(PayloadOf(ops[1])) > 0
    /\ IsRender(ops[2]) /\ ops[2].arg = List(<<>>)
    /\ NumParts(shapes_data) = 0

\* C9: after any sequence of calls with a render among them, shapes_data is
\* the payload of the most recent render call alone, before and after
\* readiness.
C9_CurrentIsLatestRender ==
    Renders # {} => shapes_data = PayloadOf(ops[Max(Renders)])

C9_Witness ==
    /\ \E i \in Renders, j \in Readies, k \in Renders :
          /\ i < j /\ j < k /\ k = Max(Renders)
          /\ NumParts(PayloadOf(ops[i])) = 2
          /\ NumParts(PayloadOf(ops[k])) = 1
    /\ NumParts(shapes_data) = 1

\* The payload of the latest render call made before the first readiness
\* signal.
LatestBeforeReady == PayloadOf(ops[Max(RendersBeforeReady)])

---------------------------------------------------------------------------
\* Claims about the serializer, under SerSpec

TessDone == ser_result # None /\ ser_call.fn = "_tessellate"
ResolveDone == ser_result # None /\ ser_call.fn = "_resolve_color"

\* C11: when the tessellator is called and raises for the batch,
\* _tessellate returns the empty sentinel {} and no exception leaves it.
C11_RaiseGivesEmptySentinel ==
    (TessDone /\ ser_call.raises /\ Len(ser_result.calls) > 0)
    => /\ ~ser_result.raised
       /\ ser_result.value = EmptyDict

C11_Witness ==
    /\ TessDone /\ ser_call.raises
    /\ ser_call.arg.py = "list" /\ Len(ser_call.arg.items) = 2
    /\ Len(ser_result.calls) = 1
    /\ ser_result.value = EmptyDict
    /\ ~ser_result.raised

\* C12: for an empty list, an empty tuple and an exhausted iterator
\* _tessellate returns {} and does not call the tessellator.
C12_EmptyInputSkipsTessellator ==
    (TessDone /\ ser_call.arg.py \in {"list", "tuple", "iter"}
              /\ ser_call.arg.items = <<>>)
    => /\ ser_result.value = EmptyDict
       /\ ser_result.calls = <<>>
       /\ ~ser_result.raised

C12_Witness ==
    /\ TessDone
    /\ ser_call.arg = Iter(<<>>)
    /\ ser_result.value = EmptyDict
    /\ ser_result.calls = <<>>

\* A bare shape or a PartSpec, and the shape it stands for.
IsShapeOrPartSpec(e) ==
    e.py = "shape" \/ (e.py = "dict" /\ "shape" \in DOMAIN e.d)
ShapeOfEntry(e) == IF e.py = "dict" THEN e.d["shape"] ELSE e
\* Part i of a payload, and the shape its mesh was made of.
PartOf(data, i) == data.d["parts"].items[i]
MeshShape(data, i) == PartOf(data, i).d["mesh"].of

\* C13: with a tessellator that returns one part per shape in order, a
\* single shape or PartSpec gives exactly 1 part, and a list of n shapes and
\* PartSpecs gives exactly n parts, part i made of the shape of entry i.
C13_OnePartPerEntryInOrder ==
    (TessDone /\ ~ser_call.raises)
    => /\ IsShapeOrPartSpec(ser_call.arg)
          => /\ NumParts(ser_result.value) = 1
             /\ MeshShape(ser_result.value, 1) = ShapeOfEntry(ser_call.arg)
       /\ (/\ ser_call.arg.py = "list"
           /\ \A i \in 1..Len(ser_call.arg.items) :
                 IsShapeOrPartSpec(ser_call.arg.items[i]))
          => /\ NumParts(ser_result.value) = Len(ser_call.arg.items)
             /\ \A i \in 1..Len(ser_call.arg.items) :
                   MeshShape(ser_result.value, i)
                       = ShapeOfEntry(ser_call.arg.items[i])

C13_Witness ==
    /\ TessDone /\ ~ser_call.raises
    /\ ser_call.arg.py = "list" /\ Len(ser_call.arg.items) = 2
    /\ ser_call.arg.items[1].py = "dict" /\ "shape" \in DOMAIN ser_call.arg.items[1].d
    /\ ser_call.arg.items[2] = box
    /\ NumParts(ser_result.value) = 2
    /\ MeshShape(ser_result.value, 1) = cyl
    /\ MeshShape(ser_result.value, 2) = box

\* The spellings of the color name n among the colors of the model.
Spellings(n) ==
    {n} \cup (CASE n = "blue" -> {"BLUE", "Blue"}
                [] n = "green" -> {"GREEN"}
                [] OTHER -> {})
\* What a color resolves to: the table's hex value for a known name in any
\* spelling, the color itself otherwise.
ExpectedColor(c) ==
    IF c = None
    THEN None
    ELSE IF \E n \in DOMAIN COLORS : c.v \in Spellings(n)
         THEN Str(COLORS[CHOOSE n \in DOMAIN COLORS : c.v \in Spellings(n)])
         ELSE c

\* C14: _resolve_color maps a known color name in any letter case to its
\* hex value in the table, returns every other string (raw hex too)
\* unchanged, and returns None for None.
C14_ResolveColor ==
    ResolveDone
    => /\ ser_result.value = ExpectedColor(ser_call.arg)
       /\ ser_call.arg \in {Str("blue"), Str("BLUE")}
          => ser_result.value = Str("#4a90d9")
       /\ ser_call.arg \in {Str("#ff0000"), Str("#ABC123"), Str("teal")}
          => ser_result.value = ser_call.arg
       /\ ser_call.arg = None => ser_result.value = None

C14_Witness ==
    /\ ResolveDone
    /\ ser_call.arg = Str("GREEN")
    /\ ser_result.value = Str("#50e850")

IsPartSpecInput(x) == x.py = "dict" /\ "shape" \in DOMAIN x.d

\* C15, as the claim states it: a dict with a "shape" key is one PartSpec,
\* every other iterable input is expanded into its elements, and every other
\* input is wrapped as a list of one element.
C15_EveryIterableExpanded ==
    TessDone
    => ser_result.items =
          IF IsPartSpecInput(ser_call.arg)
          THEN <<ser_call.arg>>
          ELSE IF HasAttr(ser_call.arg, "__iter__")
               THEN ListOf(ser_call.arg)
               ELSE <<ser_call.arg>>

\* C15, amended: a dict with a "shape" key is one PartSpec and is not
\* expanded; any other input that is a list, a tuple or an iterator is
\* expanded into its elements, one level deep; every other input, iterable
\* or not, is wrapped as a list of one element.
C15_ListTupleIteratorExpanded ==
    TessDone
    => ser_result.items =
          IF IsPartSpecInput(ser_call.arg)
          THEN <<ser_call.arg>>
          ELSE IF ser_call.arg.py \in {"list", "tuple", "iter"}
               THEN ser_call.arg.items
               ELSE <<ser_call.arg>>

C15_Witness ==
    /\ TessDone
    /\ ser_call.arg.py = "iter"
    /\ Len(ser_call.arg.items) = 2
    /\ ser_call.arg.items[1] = List(<<box, cyl>>)
    /\ IsPartSpecInput(ser_call.arg.items[2])
    /\ ser_result.items = ser_call.arg.items

\* The arguments the tessellator is to get for the element e:
\* (shape, name, color, alpha).
ExpectedArgs(e) ==
    IF IsPartSpecInput(e)
    THEN <<e.d["shape"],
           IF "name" \in DOMAIN e.d THEN e.d["name"] ELSE None,
           IF "color" \in DOMAIN e.d THEN ExpectedColor(e.d["color"]) ELSE None,
           IF "alpha" \in DOMAIN e.d THEN e.d["alpha"] ELSE None>>
    ELSE <<e, None, None, None>>

\* C16: for a normalized input of n > 0 elements _tessellate calls the
\* tessellator exactly once, with n shapes in input order and with names,
\* colors and alphas of length n each, entry i being the (resolved) value of
\* element i, None for a bare shape and for a field that is absent.
C16_OneAlignedBatchCall ==
    (TessDone /\ Len(ser_result.items) > 0)
    => /\ Len(ser_result.calls) = 1
       /\ LET c == ser_result.calls[1]
              n == Len(ser_result.items)
          IN  /\ Len(c.shapes) = n /\ Len(c.names) = n
              /\ Len(c.colors) = n /\ Len(c.alphas) = n
              /\ \A i \in 1..n :
                    <<c.shapes[i], c.names[i], c.colors[i], c.alphas[i]>>
                        = ExpectedArgs(ser_result.items[i])

C16_Witness ==
    /\ TessDone
    /\ ser_call.arg.py = "tuple"
    /\ Len(ser_result.items) = 2
    /\ ser_result.items[1] = box
    /\ ser_result.items[2] =
          Dict([shape |-> cyl, color |-> Str("BLUE"), alpha |-> Float(5)])
    /\ ser_result.calls =
          << [shapes |-> <<box, cyl>>, names |-> <<None, None>>,
              colors |-> <<None, Str("#4a90d9")>>,
              alphas |-> <<None, Float(5)>>] >>

---------------------------------------------------------------------------
\* Claims about the sync channel, under Spec (continued)

\* C17: _js_ready starts false, becomes true only in a step that handles
\* the readiness signal, and once true stays true in every later step.
C17_ReadyMonotone ==
    /\ ~_js_ready
    /\ [][/\ _js_ready => _js_ready'
          /\ (~_js_ready /\ _js_ready') => ReadyStep]_vars

C17_Witness ==
    /\ _js_ready
    /\ Readies # {}
    /\ \E i \in Renders : i > Min(Readies)
    /\ \E i \in 1..Len(ops) : ops[i].op = "msg" /\ ~IsReadyMsg(ops[i])
                              /\ i > Min(Readies)

\* C18, as the claim states it: on a viewer just created (no render and no
\* readiness signal yet) _js_ready is false and _pending_shapes and
\* shapes_data are both the empty sentinel {}.
C18_CreatedWithPendingEmpty ==
    (Renders = {} /\ Readies = {})
    => /\ ~_js_ready
       /\ _pending_shapes = EmptyDict
       /\ shapes_data = EmptyDict

\* C18, amended: on a viewer just created _js_ready is false, shapes_data
\* is the empty sentinel {} and _pending_shapes is None.
C18_CreatedWithPendingNone ==
    (Renders = {} /\ Readies = {})
    => /\ ~_js_ready
       /\ _pending_shapes = None
       /\ shapes_data = EmptyDict
       /\ sent = <<>>

C18_Witness ==
    /\ ops = <<>>
    /\ ~_js_ready
    /\ _pending_shapes = None
    /\ shapes_data = EmptyDict

\* The elements of a set of numbers, in increasing order.
RECURSIVE SortedSeq(_)
SortedSeq(S) ==
    IF S = {} THEN <<>> ELSE <<Min(S)>> \o SortedSeq(S \ {Min(S)})

\* The render calls whose payload is to be transmitted: the latest one
\* before the first readiness signal, once that signal has come, and every
\* one after it.
TransmittedRenders ==
    IF Readies = {}
    THEN {}
    ELSE (IF RendersBeforeReady = {} THEN {} ELSE {Max(RendersBeforeReady)})
         \cup {i \in Renders : i > Min(Readies)}

C20_ReadyWithNothingPending ==
    [][(ReadyStep /\ _pending_shapes = None)
        => /\ _js_ready'
           /\ sent' = sent
           /\ shapes_data' = shapes_data
           /\ _pending_shapes' = None]_vars

C20_Witness ==
    /\ Len(ops) = 1
    /\ IsReadyMsg(ops[1])
    /\ _js_ready
    /\ sent = <<>>
    /\ shapes_data = EmptyDict
    /\ _pending_shapes = None

\* C22: in every reachable state _js_ready implies _pending_shapes is None:
\* once the readiness signal has been handled, no render call leaves a
\* payload in the buffer.
C22_ReadyMeansNothingPending == _js_ready => _pending_shapes = None

\* A render call made after the readiness signal, the buffer still None.
C22_Witness ==
    /\ Len(ops) = 3
    /\ IsRender(ops[1]) /\ IsReadyMsg(ops[2]) /\ IsRender(ops[3])
    /\ NumParts(PayloadOf(ops[3])) > 0
    /\ _js_ready
    /\ _pending_shapes = None

\* Every push so far succeeded.
EveryPushOk == \A k \in 1..Len(sent) : sent[k].ok

\* C23: when every push succeeded, _js_ready holds and at least one render
\* call was made, something was transmitted and the payload transmitted
\* last is shapes_data, whatever the order of the render calls and the
\* readiness signal.
C23_LastTransmittedIsCurrent ==
    (EveryPushOk /\ _js_ready /\ Renders # {})
        => /\ sent # <<>>
           /\ Last(sent).data = shapes_data
           /\ Last(sent).data = PayloadOf(ops[Max(Renders)])

\* One readiness signal between two render calls of different payloads.
C23_Witness ==
    /\ Len(ops) = 3
    /\ IsRender(ops[1]) /\ IsReadyMsg(ops[2]) /\ IsRender(ops[3])
    /\ PayloadOf(ops[1]) # PayloadOf(ops[3])
    /\ EveryPushOk
    /\ Len(sent) = 2
    /\ Last(sent).data = shapes_data
    /\ shapes_data = PayloadOf(ops[3])

\* This step made exactly one send_state call.
TransmitsOnce == Len(sent') = Len(sent) + 1

\* C24: the readiness signal that makes the widget ready transmits if and
\* only if a render call preceded it. A render call of an empty input, or
\* one whose tessellation failed, made before readiness leaves {} and not
\* None in _pending_shapes, and that {} is transmitted, once, on readiness.
C24_ReadyTransmitsIffRendered ==
    /\ [][(ReadyStep /\ ~_js_ready)
            => /\ TransmitsOnce <=> Renders # {}
               /\ ~TransmitsOnce => sent' = sent
               /\ (Renders # {} /\ PayloadOf(ops[Max(Renders)]) = EmptyDict)
                    => /\ _pending_shapes = EmptyDict
                       /\ Transmits(EmptyDict)]_vars
    /\ [][(RenderStep /\ ~_js_ready /\ PayloadOf(Last(ops')) = EmptyDict)
            => _pending_shapes' = EmptyDict]_vars

\* render([]) and then the readiness signal: {} was transmitted once.
C24_Witness ==
    /\ Len(ops) = 2
    /\ IsRender(ops[1]) /\ ops[1].arg = List(<<>>)
    /\ IsReadyMsg(ops[2])
    /\ Len(sent) = 1
    /\ sent[1].data = EmptyDict
    /\ _pending_shapes = None

\* This step made a send_state call that raised.
PushFailed == TransmitsOnce /\ ~Last(sent').ok

\* C25: when send_state raises inside set_shapes or inside the readiness
\* handler, no exception leaves the method, the assignments made before the
\* push are kept (shapes_data is the payload; in the handler _js_ready is
\* true and _pending_shapes is None), and a later readiness signal does not
\* push the failed payload again.
C25_PushFailureIsSwallowed ==
    /\ [][PushFailed
            => /\ ~escaped'
               /\ shapes_data' = Last(sent').data
               /\ RenderStep => /\ shapes_data' = PayloadOf(Last(ops'))
                                /\ _js_ready' /\ _pending_shapes' = None
               /\ ReadyStep => /\ shapes_data' = _pending_shapes
                               /\ _js_ready'
                               /\ _pending_shapes' = None]_vars
    /\ [][(ReadyStep /\ sent # <<>> /\ ~Last(sent).ok) => sent' = sent]_vars

\* The push of the readiness handler raised, and a second readiness signal
\* was handled after it.
C25_Witness ==
    /\ Len(ops) = 3
    /\ IsRender(ops[1]) /\ IsReadyMsg(ops[2]) /\ IsReadyMsg(ops[3])
    /\ Len(sent) = 1
    /\ ~sent[1].ok
    /\ ~escaped
    /\ _js_ready
    /\ _pending_shapes = None
    /\ shapes_data = PayloadOf(ops[1])

\* ---------------------------------------------------------------------
\* Several viewers: every Viewer() builds a _CADWidget of its own

ViewerIds == {"a", "b"}

\* _CADWidget.__init__ and Viewer.__init__: the widget of a new Viewer
NewWidget ==
    [_js_ready |-> FALSE, _pending_shapes |-> None, shapes_data |-> EmptyDict,
     sent |-> <<>>, escaped |-> FALSE]

\* Mutant of AssignSelf: the attributes are held by the class, so that an
\* assignment made through one instance is seen by all of them.
AssignSelf_class_level(all, v, w) == [u \in DOMAIN all |-> w]

\* self._pending_shapes = ..., self._js_ready = ..., self.shapes_data = ...:
\* the attributes are those of the instance self (v), set in __init__
AssignSelf(all, v, w) == [all EXCEPT ![v] = w]

ViewersInit ==
    /\ _js_ready = FALSE
    /\ _pending_shapes = None
    /\ shapes_data = EmptyDict
    /\ sent = <<>>
    /\ escaped = FALSE
    /\ ops = <<>>
    /\ ser_call = None
    /\ ser_result = None
    /\ viewers = [v \in ViewerIds |-> NewWidget]
    /\ threads = None

OneWidgetUnchanged ==
    UNCHANGED <<_js_ready, _pending_shapes, shapes_data, sent, escaped,
                ser_call, ser_result, threads>>

\* A call of render(shapes) on the viewer v
RenderOn ==
    /\ NumOps("render") < MaxRenders
    /\ \E v \in ViewerIds, shapes \in RenderInputs,
          raises \in BOOLEAN, ok \in BOOLEAN :
          /\ viewers' = AssignSelf(viewers, v,
                                   render(viewers[v], shapes, raises, ok))
          /\ ops' = Append(ops, [op |-> "render", viewer |-> v])
    /\ OneWidgetUnchanged

\* A custom message of the consumer of viewer v reaches its _on_custom_msg
OnCustomMsgOn ==
    /\ NumOps("msg") < MaxMsgs
    /\ \E v \in ViewerIds, content \in Messages, ok \in BOOLEAN :
          /\ viewers' = AssignSelf(viewers, v,
                                   _on_custom_msg(viewers[v], content, ok))
          /\ ops' = Append(ops, [op |-> "msg", viewer |-> v])
    /\ OneWidgetUnchanged

ViewersNext == RenderOn \/ OnCustomMsgOn

ViewersSpec == ViewersInit /\ [][ViewersNext]_vars

\* C21: the state is per viewer: a render call or a custom message (the
\* readiness signal among them) on one viewer leaves _js_ready,
\* _pending_shapes and shapes_data of every other viewer as they were and
\* makes no send_state call on them.
C21_OtherViewersUnchanged ==
    [][IsCall
        => \A u \in ViewerIds \ {Last(ops').viewer} :
              /\ viewers'[u]._js_ready = viewers[u]._js_ready
              /\ viewers'[u]._pending_shapes = viewers[u]._pending_shapes
              /\ viewers'[u].shapes_data = viewers[u].shapes_data
              /\ viewers'[u].sent = viewers[u].sent]_vars

\* Viewer a is ready and was pushed a payload; viewer b was rendered to
\* with another payload, is not ready and was pushed nothing.
C21_Witness ==
    /\ viewers # None
    /\ viewers["a"]._js_ready
    /\ viewers["a"]._pending_shapes = None
    /\ Len(viewers["a"].sent) = 1
    /\ ~viewers["b"]._js_ready
    /\ viewers["b"]._pending_shapes # None
    /\ viewers["b"].sent = <<>>
    /\ NumParts(viewers["a"].shapes_data) = 1
    /\ NumParts(viewers["b"].shapes_data) = 2

\* ---------------------------------------------------------------------
\* Two threads in one widget: Viewer.render / set_shapes runs in one thread
\* and _on_custom_msg in another, one statement at a time and without a
\* lock (the code takes none). pc names the line each call is to execute.

ThreadsInit ==
    /\ _js_ready = FALSE
    /\ _pending_shapes = None
    /\ shapes_data = EmptyDict
    /\ sent = <<>>
    /\ escaped = FALSE
    /\ ops = <<>>
    /\ ser_call = None
    /\ ser_result = None
    /\ viewers = None
    /\ threads = [set_shapes |-> "idle", data |-> None,
                  _on_custom_msg |-> "idle", content |-> None]

SetShapesAt(line) == threads.set_shapes = line
SetShapesGoto(line) == threads' = [threads EXCEPT !.set_shapes = line]
OnMsgAt(line) == threads._on_custom_msg = line
OnMsgGoto(line) == threads' = [threads EXCEPT !._on_custom_msg = line]
NotCalled == UNCHANGED <<ops, ser_call, ser_result, viewers>>

\* Viewer.render: data = _tessellate(shapes); widget.set_shapes(data)
CallRender ==
    /\ SetShapesAt("idle")
    /\ NumOps("render") < MaxRenders
    /\ \E shapes \in RenderInputs, raises \in BOOLEAN :
          /\ threads' = [threads EXCEPT !.set_shapes = "l145",
                                        !.data = _tessellate(shapes, raises)]
          /\ ops' = Append(ops, [op |-> "render", arg |-> shapes,
                                 failed |-> TessellateCall(shapes, raises).failed])
    /\ UNCHANGED <<_js_ready, _pending_shapes, shapes_data, sent, escaped,
                   ser_call, ser_result, viewers>>

\* if self._js_ready:
SetShapes_l145 ==
    /\ SetShapesAt("l145")
    /\ SetShapesGoto(IF _js_ready THEN "l147" ELSE "l156")
    /\ UNCHANGED <<_js_ready, _pending_shapes, shapes_data, sent, escaped>>
    /\ NotCalled

\* self.shapes_data = data
SetShapes_l147 ==
    /\ SetShapesAt("l147")
    /\ shapes_data' = threads.data
    /\ SetShapesGoto("l148")
    /\ UNCHANGED <<_js_ready, _pending_shapes, sent, escaped>>
    /\ NotCalled

\* try: self.send_state("shapes_data") / except Exception
SetShapes_l148 ==
    /\ SetShapesAt("l148")
    /\ \E ok \in BOOLEAN : Store(TrySendState(Widget, ok))
    /\ SetShapesGoto("idle")
    /\ NotCalled

\* self._pending_shapes = data
SetShapes_l156 ==
    /\ SetShapesAt("l156")
    /\ _pending_shapes' = threads.data
    /\ SetShapesGoto("l157")
    /\ UNCHANGED <<_js_ready, shapes_data, sent, escaped>>
    /\ NotCalled

\* self.shapes_data = data
SetShapes_l157 ==
    /\ SetShapesAt("l157")
    /\ shapes_data' = threads.data
    /\ SetShapesGoto("idle")
    /\ UNCHANGED <<_js_ready, _pending_shapes, sent, escaped>>
    /\ NotCalled

\* A custom message is delivered: _on_custom_msg(widget, content, buffers)
DeliverMsg ==
    /\ OnMsgAt("idle")
    /\ NumOps("msg") < MaxMsgs
    /\ \E content \in Messages :
          /\ threads' = [threads EXCEPT !._on_custom_msg = "l130",
                                        !.content = content]
          /\ ops' = Append(ops, [op |-> "msg", arg |-> content, failed |-> FALSE])
    /\ UNCHANGED <<_js_ready, _pending_shapes, shapes_data, sent, escaped,
                   ser_call, ser_result, viewers>>

\* if content.get("type") == "ready":
OnMsg_l130 ==
    /\ OnMsgAt("l130")
    /\ OnMsgGoto(IF DictGet(threads.content, "type") = Str("ready")
                 THEN "l132" ELSE "idle")
    /\ UNCHANGED <<_js_ready, _pending_shapes, shapes_data, sent, escaped>>
    /\ NotCalled

\* self._js_ready = True
OnMsg_l132 ==
    /\ OnMsgAt("l132")
    /\ _js_ready' = TRUE
    /\ OnMsgGoto("l134")
    /\ UNCHANGED <<_pending_shapes, shapes_data, sent, escaped>>
    /\ NotCalled

\* if self._pending_shapes is not None:
OnMsg_l134 ==
    /\ OnMsgAt("l134")
    /\ OnMsgGoto(IF _pending_shapes # None THEN "l135" ELSE "idle")
    /\ UNCHANGED <<_js_ready, _pending_shapes, shapes_data, sent, escaped>>
    /\ NotCalled

\* self.shapes_data = self._pending_shapes
OnMsg_l135 ==
    /\ OnMsgAt("l135")
    /\ shapes_data' = _pending_shapes
    /\ OnMsgGoto("l136")
    /\ UNCHANGED <<_js_ready, _pending_shapes, sent, escaped>>
    /\ NotCalled

\* self._pending_shapes = None
OnMsg_l136 ==
    /\ OnMsgAt("l136")
    /\ _pending_shapes' = None
    /\ OnMsgGoto("l138")
    /\ UNCHANGED <<_js_ready, shapes_data, sent, escaped>>
    /\ NotCalled

\* try: self.send_state("shapes_data") / except Exception
OnMsg_l138 ==
    /\ OnMsgAt("l138")
    /\ \E ok \in BOOLEAN : Store(TrySendState(Widget, ok))
    /\ OnMsgGoto("idle")
    /\ NotCalled

ThreadsNext ==
    \/ CallRender \/ SetShapes_l145 \/ SetShapes_l147 \/ SetShapes_l148
    \/ SetShapes_l156 \/ SetShapes_l157
    \/ DeliverMsg \/ OnMsg_l130 \/ OnMsg_l132 \/ OnMsg_l134
    \/ OnMsg_l135 \/ OnMsg_l136 \/ OnMsg_l138

ThreadsSpec == ThreadsInit /\ [][ThreadsNext]_vars

\* Neither call is in progress.
ThreadsIdle == SetShapesAt("idle") /\ OnMsgAt("idle")
WasTransmitted(data) == \E k \in 1..Len(sent) : sent[k].data = data

\* C26: with set_shapes and the readiness handler in different threads,
\* interleaved statement by statement and without a lock, no state in which
\* both calls have returned has _js_ready true together with a payload in
\* _pending_shapes that was never transmitted.
C26_NoPayloadLeftBehind ==
    (ThreadsIdle /\ _js_ready)
        => (_pending_shapes = None \/ WasTransmitted(_pending_shapes))

====
